---- MODULE Spec2Model ----
(***************************************************************************)
(* A model of the KEM orchestration layer of BIKE-1 (kem.c): the split     *)
(* operator, H, public-key computation, encrypt / reencrypt, the KDF and   *)
(* the three public operations crypto_kem_keypair / _enc / _dec.           *)
(*                                                                         *)
(* Byte buffers are functions from 0..n-1 to 0..255, as in C.  The         *)
(* collaborators that kem.c only calls (samplers, PRF, SHA, gf2x, the      *)
(* decoder, the scoped cleanup) are modelled from their contracts.         *)
(***************************************************************************)
EXTENDS Integers, Naturals, Sequences, FiniteSets, TLC

VARIABLES
  rbits,      \* R_BITS of the build (never changes after Init)
  sp_pc,      \* split_e harness: "in" before the call, "out" after it
  sp_e,       \* split_e harness: the N_SIZE-byte input e
  sp_out,     \* split_e harness: the result record of split_e
  pc,         \* the step the running public operation is at ("idle": none
              \* runs; "dead": the process was killed inside an operation)
  pk,         \* the caller's public-key buffer
  sk,         \* the caller's secret-key buffer
  ct,         \* the caller's ciphertext buffer (output of crypto_kem_enc)
  ss_enc,     \* the caller's shared-secret buffer of crypto_kem_enc
  ss_dec,     \* the caller's shared-secret buffer of crypto_kem_dec
  dct,        \* the ciphertext buffer passed to crypto_kem_dec
  L,          \* the locals of the operations and their helpers, as memory holds them
  hist,       \* history: the last value each local held while it was in scope
  ret,        \* per public operation, the set holding the status it returned
  trace,      \* history: the steps the running operation has performed
  wr,         \* history: how often the running operation wrote each output
  pre,        \* history: the outputs as they were when the operation was called
  calls,      \* history: the fallible calls the running operation made, with
              \* the status each returned
  stdout      \* what the running (or last) operation has printed, in order

kemvars == <<pc, pk, sk, ct, ss_enc, ss_dec, dct, L, hist, ret, trace, wr, pre, calls,
             stdout>>
splitvars == <<sp_pc, sp_e, sp_out>>
vars == <<rbits, sp_pc, sp_e, sp_out, pc, pk, sk, ct, ss_enc, ss_dec, dct, L,
          hist, ret, trace, wr, pre, calls, stdout>>

(***************************************************************************)
(* Bounds of the model.                                                    *)
(***************************************************************************)
\* Largest ring degree r the split_e harness enumerates (covers r mod 8 in
\* 1..4: corner case, 5..7: no corner case, 8: byte aligned).
MaxR == 8

(***************************************************************************)
(* Bit and byte arithmetic (C semantics on uint8_t / int).                 *)
(***************************************************************************)
RECURSIVE Pow2(_)
Pow2(n) == IF n = 0 THEN 1 ELSE 2 * Pow2(n - 1)

\* Bit i of the non-negative integer x.
BitOf(x, i) == (x \div Pow2(i)) % 2

RECURSIVE BitOrW(_, _, _)
\* a | b on the low w bits.
BitOrW(a, b, w) ==
  IF w = 0 THEN 0
  ELSE (IF a % 2 = 1 \/ b % 2 = 1 THEN 1 ELSE 0) + 2 * BitOrW(a \div 2, b \div 2, w - 1)

RECURSIVE BitAndW(_, _, _)
\* a & b on the low w bits.
BitAndW(a, b, w) ==
  IF w = 0 THEN 0
  ELSE (IF a % 2 = 1 /\ b % 2 = 1 THEN 1 ELSE 0) + 2 * BitAndW(a \div 2, b \div 2, w - 1)

RECURSIVE BitXorW(_, _, _)
\* a ^ b on the low w bits.
BitXorW(a, b, w) ==
  IF w = 0 THEN 0
  ELSE ((a + b) % 2) + 2 * BitXorW(a \div 2, b \div 2, w - 1)

\* The operands of split_e's shifts are promoted to int: 16 bits hold them.
OR16(a, b)  == BitOrW(a, b, 16)
AND8(a, b)  == BitAndW(a, b, 8)
OR8(a, b)   == BitOrW(a, b, 8)
XOR8(a, b)  == BitXorW(a, b, 8)
NOT8(a)     == 255 - a
\* Storing an int into a uint8_t keeps the low 8 bits.
U8(x) == x % 256

Bytes == 0..255
\* A buffer of n bytes all equal to b.
Fill(n, b) == [i \in 0..(n - 1) |-> b]
Zeros(n) == Fill(n, 0)
BufLen(b) == Cardinality(DOMAIN b)
\* a followed by b.
Concat(a, b) ==
  [i \in 0..(BufLen(a) + BufLen(b) - 1) |->
     IF i < BufLen(a) THEN a[i] ELSE b[i - BufLen(a)]]
\* Bytes [from, from + n) of b.
Slice(b, from, n) == [i \in 0..(n - 1) |-> b[from + i]]

\* Bit j of a little-endian packed buffer.
BufBit(b, j) == BitOf(b[j \div 8], j % 8)
\* The positions of the one-bits of a buffer.
Support(b) == {j \in 0..(8 * BufLen(b) - 1) : BufBit(b, j) = 1}
RECURSIVE ByteOfSupport(_, _, _)
\* The byte at offset i of the buffer whose one-bits are the set s (bits k..7).
ByteOfSupport(s, i, k) ==
  IF k = 8 THEN 0
  ELSE (IF (8 * i + k) \in s THEN Pow2(k) ELSE 0) + ByteOfSupport(s, i, k + 1)

\* The buffer of n bytes whose one-bits are exactly the set s.
FromSupport(s, n) == [i \in 0..(n - 1) |-> ByteOfSupport(s, i, 0)]

(***************************************************************************)
(* defs.h                                                                  *)
(***************************************************************************)
\* Divide by the divider and round up to next integer.
DIVIDE_AND_CEIL(x, divider) == (x + divider) \div divider
BIT(len) == Pow2(len)
MASK(len) == BIT(len) - 1

(***************************************************************************)
(* The parameter set of the build.                                         *)
(***************************************************************************)
R_BITS == rbits
N0 == 2
N_BITS == R_BITS * N0
\* The byte sizes of a ring element and of a 2r-bit error: ceil(r / 8) and
\* ceil(2r / 8).
R_SIZE == (R_BITS + 7) \div 8
N_SIZE == (N_BITS + 7) \div 8
\* The number of valid bits of a ring element's last byte (r mod 8), the
\* shift that completes it to a byte, and the mask of its valid bits (0xFF
\* when r mod 8 = 0).
LAST_R_BYTE_LEAD == R_BITS % 8
LAST_R_BYTE_TRAIL == 8 - LAST_R_BYTE_LEAD
LAST_R_BYTE_MASK == IF R_BITS % 8 # 0 THEN MASK(R_BITS % 8) ELSE 255

\* The byte the caller's buffers hold before the first operation writes to
\* them (0xAA).
JUNK == 170

\* kem.c does not determine what a local declared without an initialiser
\* holds before it is assigned, nor what lies behind the buffers its caller
\* passes.  Such a byte is held as Bytes, the set of the
\* values it may have: it equals no byte and no arithmetic applies to it, so
\* a step that read it before writing it could not be evaluated.
Indeterminate(n) == [i \in 0..(n - 1) |-> Bytes]
\* n 32-bit words declared without an initialiser, each as its four bytes.
IndeterminateWords(n) == [i \in 0..(n - 1) |-> Indeterminate(4)]

(***************************************************************************)
(* split_e (kem.c).  The result records the two halves and the byte        *)
(* offsets the routine read from e and wrote to val[0], val[1].            *)
(***************************************************************************)
\* for(i = R_SIZE; i < N_SIZE; ++i) val[1].raw[i - R_SIZE] = ...
RECURSIVE split_loop(_, _, _)
split_loop(st, e, i) ==
  IF i >= N_SIZE THEN st
  ELSE split_loop(
         [st EXCEPT
            !.val1 = [k \in (DOMAIN st.val1) \cup {i - R_SIZE} |->
                        IF k = i - R_SIZE
                        THEN U8(OR16(e[i] * Pow2(LAST_R_BYTE_TRAIL),
                                     e[i - 1] \div Pow2(LAST_R_BYTE_LEAD)))
                        ELSE st.val1[k]],
            !.reads = @ \cup {i, i - 1},
            !.writes1 = @ \cup {i - R_SIZE}],
         e, i + 1)

\* if(N_SIZE < 2 * R_SIZE) val[1].raw[R_SIZE - 1] = e->raw[N_SIZE - 1] >> LEAD
split_corner(st, e) ==
  IF N_SIZE < 2 * R_SIZE
  THEN [st EXCEPT !.val1[R_SIZE - 1] = e[N_SIZE - 1] \div Pow2(LAST_R_BYTE_LEAD),
                  !.reads = @ \cup {N_SIZE - 1},
                  !.writes1 = @ \cup {R_SIZE - 1}]
  ELSE st

\* val[k].raw[R_SIZE - 1] &= LAST_R_BYTE_MASK
\* A split_e that does not mask the last bytes.
split_fix_last_skip(st) == st

split_fix_last(st) ==
  [st EXCEPT !.val0[R_SIZE - 1] = AND8(@, LAST_R_BYTE_MASK),
             !.val1[R_SIZE - 1] = AND8(@, LAST_R_BYTE_MASK),
             !.writes0 = @ \cup {R_SIZE - 1},
             !.writes1 = @ \cup {R_SIZE - 1}]

\* out is the (uninitialised) split_e_t the caller passes; e the N-bit error.
split_e(out, e) ==
  LET copied == [val0 |-> [k \in 0..(R_SIZE - 1) |-> e[k]],
                 val1 |-> out.val1,
                 reads |-> 0..(R_SIZE - 1),
                 writes0 |-> 0..(R_SIZE - 1),
                 writes1 |-> {}]
  IN split_fix_last(split_corner(split_loop(copied, e, R_SIZE), e))

\* A split_e_t declared without an initialiser.
IndeterminateSplit ==
  [val0 |-> Indeterminate(R_SIZE), val1 |-> Indeterminate(R_SIZE)]

(***************************************************************************)
(* Sizes and budgets of the KEM model (scaled-down parameter set).         *)
(***************************************************************************)
\* R_BITS of the KEM build.
KemRBits == 3
\* Row weight of the parity-check matrix: the weight of h0 and of h1.
DV == 1
\* Error weight t.
T1 == 2
\* The number of entries each printf loop of crypto_kem_keypair prints (the
\* literal bound of the loops).
PRINTED == 71
\* Bytes of a shared secret (ss_len) and of a seed (seed_len).
SS_SIZE == 2
SEED_SIZE == 1
\* PRF invocations one AES-CTR PRF state allows.  The build's budget is far
\* larger than what a run draws; here it is what the shared h0/h1 context
\* needs at least (2 * DV draws) plus DV - 1 spare, so that exhaustion, the
\* fallible outcome of every sampler, is reachable.
MAX_AES_INVOKATION == 2 * DV + (DV - 1)
\* The entropy collaborator's inputs are 0..MaxEntropy.
MaxEntropy == 5

HASH_SIZE == SS_SIZE + SEED_SIZE

SUCCESS == 0
FAIL == 1
\* The statuses a fallible collaborator returns.
Statuses == {SUCCESS, FAIL}
\* GUARD(call): TRUE when the call's status makes the caller return at once.
GUARD(status) == status # SUCCESS
\* The record of one fallible call: the routine and the status it returned.
Call(fn, status) == <<[fn |-> fn, ret |-> status]>>
NO_RESTRICTION == "NO_RESTRICTION"
MUST_BE_ODD == "MUST_BE_ODD"

(***************************************************************************)
(* Collaborators, from their contracts.                                    *)
(***************************************************************************)
RECURSIVE WeightedSum(_, _, _)
\* Sum over j >= from of buf[j] * (2 j + k).
WeightedSum(buf, from, k) ==
  IF from >= BufLen(buf) THEN 0
  ELSE buf[from] * (2 * from + k) + WeightedSum(buf, from + 1, k)

\* sha(&out, len, buf): a deterministic digest of HASH_SIZE bytes.
sha(buf) ==
  [i \in 0..(HASH_SIZE - 1) |->
     (WeightedSum(buf, 0, 2 * i + 3) + 17 * (i + 1) + 5 * BufLen(buf)) % 256]

\* get_seeds(&seeds): three seeds derived from the entropy input.
get_seeds(ent) ==
  [i \in 0..2 |-> Slice(sha(Fill(1, (64 * i + ent) % 256)), 0, SEED_SIZE)]

\* finalize_aes_ctr_prf / aes_ctr_prf_state_cleanup: the cleared state.
ZeroPrf == [key |-> Zeros(SEED_SIZE), ctr |-> 0, rem |-> 0]
\* init_aes_ctr_prf_state(&s, max, &seed): an AES-CTR PRF state is its key,
\* its counter and the invocations left.  The status is the environment's;
\* a failing call leaves the state as it was.
init_aes_ctr_prf_state(s, max, seed, status) ==
  [ret |-> status,
   prf |-> IF status = SUCCESS THEN [key |-> seed, ctr |-> 0, rem |-> max] ELSE s]
\* One PRF output byte; fails (E_AES_OVER_USED) when the budget is spent.
aes_ctr_prf(s) ==
  IF s.rem = 0 THEN [ok |-> FALSE, val |-> 0, prf |-> s]
  ELSE [ok |-> TRUE,
        val |-> sha(Concat(s.key, Fill(1, s.ctr)))[0],
        prf |-> [s EXCEPT !.ctr = @ + 1, !.rem = @ - 1]]

\* Hamming weight of a buffer.
r_bits_vector_weight(a) == Cardinality(Support(a))

RECURSIVE draw_bytes(_, _, _)
\* n PRF bytes appended to acc.
draw_bytes(s, n, acc) ==
  IF n = 0 THEN [ok |-> TRUE, val |-> acc, prf |-> s]
  ELSE LET next(d) ==
             IF ~d.ok THEN [ok |-> FALSE, val |-> acc, prf |-> d.prf]
             ELSE draw_bytes(d.prf, n - 1, Concat(acc, Fill(1, d.val)))
       IN next(aes_ctr_prf(s))

RECURSIVE sample_uniform_r_bits_with_fixed_prf_context(_, _)
\* Fills a ring element with r uniform bits (bits >= r cleared); with
\* MUST_BE_ODD the whole element is sampled again until its weight is odd.
sample_uniform_r_bits_with_fixed_prf_context(s, restriction) ==
  LET masked(v) == [v EXCEPT ![R_SIZE - 1] = AND8(@, LAST_R_BYTE_MASK)]
      accept(d, v) ==
        IF restriction = MUST_BE_ODD /\ r_bits_vector_weight(v) % 2 = 0
        THEN sample_uniform_r_bits_with_fixed_prf_context(d.prf, restriction)
        ELSE [ok |-> TRUE, val |-> v, prf |-> d.prf]
      sampled(d) ==
        IF ~d.ok THEN [ok |-> FALSE, val |-> Zeros(R_SIZE), prf |-> d.prf]
        ELSE accept(d, masked(d.val))
  IN sampled(draw_bytes(s, R_SIZE, <<>>))

\* The same with a PRF state of its own, keyed by seed and finalized.
sample_uniform_r_bits(seed, restriction) ==
  LET finalized(r) == [ok |-> r.ok, val |-> r.val]
  IN finalized(sample_uniform_r_bits_with_fixed_prf_context(
                 init_aes_ctr_prf_state(ZeroPrf, MAX_AES_INVOKATION, seed,
                                        SUCCESS).prf,
                 restriction))

RECURSIVE bit_scan_reverse(_)
\* The number of bits of val.
bit_scan_reverse(val) == IF val = 0 THEN 0 ELSE 1 + bit_scan_reverse(val \div 2)

RECURSIVE get_rand_mod_len(_, _)
\* A PRF value below len, by rejection.
get_rand_mod_len(len, s) ==
  LET try(d, rand) ==
        IF ~d.ok THEN [ok |-> FALSE, val |-> 0, prf |-> d.prf]
        ELSE IF rand >= len THEN get_rand_mod_len(len, d.prf)
             ELSE [ok |-> TRUE, val |-> rand, prf |-> d.prf]
      drawn(d) == try(d, AND8(d.val, MASK(bit_scan_reverse(len))))
  IN drawn(aes_ctr_prf(s))

RECURSIVE sparse_indices(_, _, _, _)
\* weight distinct indices below len; found is the set accepted so far.
sparse_indices(found, weight, len, s) ==
  IF Cardinality(found) >= weight THEN [ok |-> TRUE, idx |-> found, prf |-> s]
  ELSE LET next(d) ==
             IF ~d.ok THEN [ok |-> FALSE, idx |-> found, prf |-> d.prf]
             ELSE sparse_indices(found \cup {d.val}, weight, len, d.prf)
       IN next(get_rand_mod_len(len, s))

RECURSIVE SortedList(_)
\* The elements of a set of numbers in increasing order, indexed from 0.
SortedList(set) ==
  IF set = {} THEN <<>>
  ELSE LET withMax(mx, rest) ==
             [i \in 0..(Cardinality(set) - 1) |->
                IF i = Cardinality(set) - 1 THEN mx ELSE rest[i]]
           from(mx) == withMax(mx, SortedList(set \ {mx}))
       IN from(CHOOSE x \in set : \A y \in set : y <= x)

\* generate_sparse_rep(buf, wlist, weight, len, padded_len, prf): weight
\* distinct indices below len, the buffer with exactly those bits set and
\* the sorted index list; on PRF exhaustion the outputs keep what they held.
generate_sparse_rep(buf, wlist, weight, len, size, s) ==
  LET result(r) ==
        IF ~r.ok THEN [ok |-> FALSE, buf |-> buf, wlist |-> wlist, prf |-> r.prf]
        ELSE [ok |-> TRUE, buf |-> FromSupport(r.idx, size),
              wlist |-> SortedList(r.idx), prf |-> r.prf]
  IN result(sparse_indices({}, weight, len, s))

\* The product of a and b in GF(2)[x]/(x^r - 1).
RingMul(a, b) ==
  FromSupport(
    {k \in 0..(R_BITS - 1) :
       Cardinality({p \in Support(a) \X Support(b) :
                      (p[1] + p[2]) % R_BITS = k}) % 2 = 1},
    R_SIZE)
\* gf2x_mod_mul(dst, a, b): dst = a * b.  The status is the environment's; a
\* failing call leaves dst as it was.
gf2x_mod_mul(dst, a, b, status) ==
  [ret |-> status, dst |-> IF status = SUCCESS THEN RingMul(a, b) ELSE dst]

\* The byte-wise XOR of n bytes of a and b.
RingAdd(a, b, n) == [i \in 0..(n - 1) |-> XOR8(a[i], b[i])]
\* gf2x_add(dst, a, b, n): dst = a + b.  The status is the environment's; a
\* failing call leaves dst as it was.
gf2x_add(dst, a, b, n, status) ==
  [ret |-> status, dst |-> IF status = SUCCESS THEN RingAdd(a, b, n) ELSE dst]

\* secure_cmp, secure_cmp32: 1 when equal, 0 otherwise.
secure_cmp(a, b) == IF a = b THEN 1 ELSE 0
secure_cmp32(v1, v2) == IF v1 = v2 THEN 1 ELSE 0
\* secure_l32_mask: 0 when v1 < v2, all ones otherwise.  The uint32_t result
\* is carried as its 16-bit halves <<high, low>>.
secure_l32_mask(v1, v2) == IF v1 < v2 THEN <<0, 0>> ELSE <<65535, 65535>>

(***************************************************************************)
(* Types of kem.c as the model holds them.                                 *)
(***************************************************************************)
\* Two ring elements: pk_t, ct_t, split_e_t and the padded pairs.
Pair(a, b) == [val0 |-> a, val1 |-> b]
ZeroPair == Pair(Zeros(R_SIZE), Zeros(R_SIZE))
\* A pk_t, ct_t as the caller's buffer holds it before the first operation.
JunkPair == Pair(Fill(R_SIZE, JUNK), Fill(R_SIZE, JUNK))
SplitVals(s) == Pair(s.val0, s.val1)
\* sk_t after memset(l_sk, 0, sizeof(sk_t)).
ZeroSk == [bin0 |-> Zeros(R_SIZE), bin1 |-> Zeros(R_SIZE),
           wlist0 |-> Zeros(DV), wlist1 |-> Zeros(DV),
           sigma0 |-> Zeros(R_SIZE), sigma1 |-> Zeros(R_SIZE)]
JunkSk == [bin0 |-> Fill(R_SIZE, JUNK), bin1 |-> Fill(R_SIZE, JUNK),
           wlist0 |-> Fill(DV, JUNK), wlist1 |-> Fill(DV, JUNK),
           sigma0 |-> Fill(R_SIZE, JUNK), sigma1 |-> Fill(R_SIZE, JUNK)]

\* The four bytes of a uint32_t, least significant first.
LE32(x) == [b \in 0..3 |-> (x \div Pow2(8 * b)) % 256]
\* The bytes of an index list: its 32-bit indices one after the other.
WlistBytes(wlist) ==
  [o \in 0..(4 * BufLen(wlist) - 1) |-> LE32(wlist[o \div 4])[o % 4]]
\* The bytes of *l_sk, the fields in the order of the sk byte layout with no
\* padding between them: bin[0], bin[1], wlist[0], wlist[1], sigma0, sigma1.
SkBytes(l_sk) ==
  Concat(Concat(Concat(l_sk.bin0, l_sk.bin1),
                Concat(WlistBytes(l_sk.wlist0), WlistBytes(l_sk.wlist1))),
         Concat(l_sk.sigma0, l_sk.sigma1))
\* The offset of wlist[i] in sk_t, and sizeof(sk_t).
WlistOffset(i) == 2 * R_SIZE + 4 * DV * i
SkSize == 4 * R_SIZE + 8 * DV

\* Every local of kem.c, all zero: what a cleaned local holds, and what the
\* model holds for a local that is not in scope.
ZeroFrame ==
  [seeds |-> [i \in 0..2 |-> Zeros(SEED_SIZE)],
   h_prf_state |-> ZeroPrf, s_prf_state |-> ZeroPrf, p_sk |-> ZeroPair,
   g |-> Zeros(R_SIZE), p_pk |-> ZeroPair,
   m |-> Zeros(R_SIZE), p_ct |-> ZeroPair, mf_int |-> ZeroPair,
   splitted_e |-> ZeroPair,
   h_tmp |-> ZeroPair, hash_seed |-> Zeros(HASH_SIZE),
   seed_for_hash |-> Zeros(SEED_SIZE), prf_state |-> ZeroPrf,
   h_e |-> Zeros(N_SIZE), dummy |-> Zeros(T1),
   kdf_tmp |-> Zeros(4 * R_SIZE), kdf_hash |-> Zeros(HASH_SIZE),
   mf |-> ZeroPair,
   syndrome |-> Zeros(R_SIZE), e |-> ZeroPair, e2 |-> ZeroPair, ce |-> ZeroPair,
   dec_ret |-> 0, success_cond |-> 0, mask |-> 0,
   ss_succ |-> Zeros(SS_SIZE), ss_fail |-> Zeros(SS_SIZE)]

\* frame with the locals named in fields taken from src.
Upd(frame, src, fields) ==
  [f \in DOMAIN frame |-> IF f \in fields THEN src[f] ELSE frame[f]]
\* frame with the locals named in fields overwritten with zeros.
Clean(frame, fields) == Upd(frame, ZeroFrame, fields)

(***************************************************************************)
(* Debug output.  What is printed is a sequence of entries, each the name  *)
(* the source prints and the value that follows it.  The DMSG calls print  *)
(* fixed texts only and add no entry.  A number printed with %u is held as *)
(* the four bytes of the uint32_t, least significant first.                *)
(***************************************************************************)
\* The verbosity the build defaults to (#define VERBOSE 4).
VERBOSE == 4

\* print(name, in, bits): the library macro prints the name and the value
\* at verbosity 2 or above, and nothing below.
print(name, in) ==
  IF VERBOSE >= 2 THEN <<[by |-> "print", name |-> name, val |-> in]>> ELSE <<>>

\* for(y = 0; y < 71; y++) printf("%u\n", (l_sk->wlist[i].val)[y]): one entry
\* for each read.  The list holds DV indices; a read at y >= DV falls on the
\* bytes that follow the list: the fields of *l_sk behind it, then whatever
\* lies behind the sk buffer, which kem.c does not determine.  n is the
\* number of reads the loop performs.
printf_wlist(name, l_sk, i, n) ==
  LET byte(image, o) == IF o < SkSize THEN image[o] ELSE Bytes
      word(image, y) == [b \in 0..3 |-> byte(image, WlistOffset(i) + 4 * y + b)]
      loop(image) ==
        [y \in 1..n |->
           [by |-> "printf", name |-> name, val |-> word(image, y - 1)]]
  IN loop(SkBytes(l_sk))

\* How a loop over the words of an index list may end: after all its 71
\* reads (PRINTED), or at a read y >= DV, which is behind the end of the
\* array val[DV]: the behaviour of such a read is undefined, and the process
\* may be killed there (by a build that checks array bounds at any such y,
\* by the memory protection at those behind the sk buffer) before anything
\* of that word is printed.  With DV >= 71 every read is inside the list.
LoopStops == (DV..(PRINTED - 1)) \cup {PRINTED}

(***************************************************************************)
(* Helpers of kem.c.  Each returns its outputs and "live": its locals as   *)
(* they are when it returns, before its scoped cleanups run.               *)
(***************************************************************************)
translate_hash_to_ss(hash) == Slice(hash, 0, SS_SIZE)
translate_hash_to_seed(hash) == Slice(hash, 0, SEED_SIZE)

\* The locals calc_pk cleans when it returns (DEFER_CLEANUP).
calc_pk_cleanup == {"g"}

\* What the environment of one call of calc_pk decides: the statuses of its
\* two gf2x_mod_mul calls.
CalcPkEnvs ==
  {env \in [mul0 : Statuses, mul1 : Statuses] :
     GUARD(env.mul0) => env.mul1 = SUCCESS}

\* A calc_pk without the cross-wiring: (f0, f1) = (g*h0, g*h1).
calc_pk_straight(pk_, g_seed, p_sk, env) ==
  LET failed(g, p_pk, made) ==
        [ret |-> FAIL, pk |-> pk_, writes |-> 0, prints |-> <<>>, calls |-> made,
         live |-> [g |-> g, p_pk |-> p_pk]]
      output(g, p_pk, made) ==
        [ret |-> SUCCESS, pk |-> p_pk, writes |-> 1,
         prints |-> print("g", g) \o print("f0", p_pk.val0) \o print("f1", p_pk.val1),
         calls |-> made,
         live |-> [g |-> g, p_pk |-> p_pk]]
      second(g, f0, m1, made) ==
        IF GUARD(m1.ret)
        THEN failed(g, Pair(f0, m1.dst), made \o Call("gf2x_mod_mul", m1.ret))
        ELSE output(g, Pair(f0, m1.dst), made \o Call("gf2x_mod_mul", m1.ret))
      first(g, m0, made) ==
        IF GUARD(m0.ret)
        THEN failed(g, Pair(m0.dst, Zeros(R_SIZE)), made \o Call("gf2x_mod_mul", m0.ret))
        ELSE second(g, m0.dst, gf2x_mod_mul(Zeros(R_SIZE), g, p_sk.val1, env.mul1),
                    made \o Call("gf2x_mod_mul", m0.ret))
      sampled(gs) ==
        IF ~gs.ok
        THEN failed(gs.val, ZeroPair, Call("sample_uniform_r_bits", FAIL))
        ELSE first(gs.val, gf2x_mod_mul(Zeros(R_SIZE), gs.val, p_sk.val0, env.mul0),
                   Call("sample_uniform_r_bits", SUCCESS))
  IN sampled(sample_uniform_r_bits(g_seed, MUST_BE_ODD))

\* A calc_pk that clears pk before it samples g.
calc_pk_early(pk_, g_seed, p_sk, env) ==
  LET failed(g, p_pk, made) ==
        [ret |-> FAIL, pk |-> ZeroPair, writes |-> 1, prints |-> <<>>, calls |-> made,
         live |-> [g |-> g, p_pk |-> p_pk]]
      output(g, p_pk, made) ==
        [ret |-> SUCCESS, pk |-> p_pk, writes |-> 2,
         prints |-> print("g", g) \o print("f0", p_pk.val0) \o print("f1", p_pk.val1),
         calls |-> made,
         live |-> [g |-> g, p_pk |-> p_pk]]
      second(g, f0, m1, made) ==
        IF GUARD(m1.ret)
        THEN failed(g, Pair(f0, m1.dst), made \o Call("gf2x_mod_mul", m1.ret))
        ELSE output(g, Pair(f0, m1.dst), made \o Call("gf2x_mod_mul", m1.ret))
      first(g, m0, made) ==
        IF GUARD(m0.ret)
        THEN failed(g, Pair(m0.dst, Zeros(R_SIZE)), made \o Call("gf2x_mod_mul", m0.ret))
        ELSE second(g, m0.dst, gf2x_mod_mul(Zeros(R_SIZE), g, p_sk.val0, env.mul1),
                    made \o Call("gf2x_mod_mul", m0.ret))
      sampled(gs) ==
        IF ~gs.ok
        THEN failed(gs.val, ZeroPair, Call("sample_uniform_r_bits", FAIL))
        ELSE first(gs.val, gf2x_mod_mul(Zeros(R_SIZE), gs.val, p_sk.val1, env.mul0),
                   Call("sample_uniform_r_bits", SUCCESS))
  IN sampled(sample_uniform_r_bits(g_seed, MUST_BE_ODD))

calc_pk(pk_, g_seed, p_sk, env) ==
  LET \* a GUARD returns: pk is not written, nothing is printed
      failed(g, p_pk, made) ==
        [ret |-> FAIL, pk |-> pk_, writes |-> 0, prints |-> <<>>, calls |-> made,
         live |-> [g |-> g, p_pk |-> p_pk]]
      \* pk->val[0] = p_pk[0].val; pk->val[1] = p_pk[1].val; g, f0 and f1
      \* are printed; return SUCCESS
      output(g, p_pk, made) ==
        [ret |-> SUCCESS, pk |-> p_pk, writes |-> 1,
         prints |-> print("g", g) \o print("f0", p_pk.val0) \o print("f1", p_pk.val1),
         calls |-> made,
         live |-> [g |-> g, p_pk |-> p_pk]]
      \* GUARD(gf2x_mod_mul(&p_pk[1], &g, &p_sk[0]))
      second(g, f0, m1, made) ==
        IF GUARD(m1.ret)
        THEN failed(g, Pair(f0, m1.dst), made \o Call("gf2x_mod_mul", m1.ret))
        ELSE output(g, Pair(f0, m1.dst), made \o Call("gf2x_mod_mul", m1.ret))
      \* GUARD(gf2x_mod_mul(&p_pk[0], &g, &p_sk[1]))
      first(g, m0, made) ==
        IF GUARD(m0.ret)
        THEN failed(g, Pair(m0.dst, Zeros(R_SIZE)), made \o Call("gf2x_mod_mul", m0.ret))
        ELSE second(g, m0.dst, gf2x_mod_mul(Zeros(R_SIZE), g, p_sk.val0, env.mul1),
                    made \o Call("gf2x_mod_mul", m0.ret))
      \* GUARD(sample_uniform_r_bits(&g.val, g_seed, MUST_BE_ODD))
      sampled(gs) ==
        IF ~gs.ok
        THEN failed(gs.val, ZeroPair, Call("sample_uniform_r_bits", FAIL))
        ELSE first(gs.val, gf2x_mod_mul(Zeros(R_SIZE), gs.val, p_sk.val1, env.mul0),
                   Call("sample_uniform_r_bits", SUCCESS))
  IN sampled(sample_uniform_r_bits(g_seed, MUST_BE_ODD))

\* The locals function_h cleans when it returns.
function_h_cleanup ==
  {"h_tmp", "hash_seed", "seed_for_hash", "prf_state", "h_e", "dummy"}

\* What the environment of one call of function_h decides: the status of
\* init_aes_ctr_prf_state.
FunctionHEnvs == [init_prf : Statuses]

\* written: the locals of function_h that were assigned when it returns.
function_h(splitted_e, in0, in1, env) ==
  LET \* GUARD(generate_sparse_rep(...)); split_e(splitted_e, &e.val)
      result(tmp, hash_seed, seed_for_hash, sp) ==
        [ret |-> IF sp.ok THEN SUCCESS ELSE FAIL,
         out |-> IF sp.ok THEN SplitVals(split_e(splitted_e, sp.buf))
                 ELSE splitted_e,
         calls |-> Call("init_aes_ctr_prf_state", SUCCESS)
                     \o Call("generate_sparse_rep", IF sp.ok THEN SUCCESS ELSE FAIL),
         written |-> {"h_tmp", "hash_seed", "seed_for_hash", "prf_state"}
                       \cup (IF sp.ok THEN {"h_e", "dummy"} ELSE {}),
         live |-> [h_tmp |-> tmp, hash_seed |-> hash_seed,
                   seed_for_hash |-> seed_for_hash, prf_state |-> sp.prf,
                   h_e |-> sp.buf, dummy |-> sp.wlist]]
      \* GUARD(init_aes_ctr_prf_state(...)): on its return prf_state holds
      \* the {0} of its declaration and e and dummy are not declared yet;
      \* otherwise the sparse error of weight T1 on N_BITS is sampled into e
      \* and dummy, both declared without an initialiser
      expand(tmp, hash_seed, seed_for_hash, init) ==
        IF GUARD(init.ret)
        THEN [ret |-> FAIL, out |-> splitted_e,
              calls |-> Call("init_aes_ctr_prf_state", init.ret),
              written |-> {"h_tmp", "hash_seed", "seed_for_hash", "prf_state"},
              live |-> [h_tmp |-> tmp, hash_seed |-> hash_seed,
                        seed_for_hash |-> seed_for_hash, prf_state |-> init.prf,
                        h_e |-> Zeros(N_SIZE), dummy |-> Zeros(T1)]]
        ELSE result(tmp, hash_seed, seed_for_hash,
                    generate_sparse_rep(Indeterminate(N_SIZE), IndeterminateWords(T1),
                                        T1, N_BITS, N_SIZE, init.prf))
      \* translate_hash_to_seed(&seed_for_hash, &hash_seed)
      seeded(tmp, hash_seed, seed_for_hash) ==
        expand(tmp, hash_seed, seed_for_hash,
               init_aes_ctr_prf_state(ZeroPrf, MAX_AES_INVOKATION, seed_for_hash,
                                      env.init_prf))
      extract(tmp, hash_seed) ==
        seeded(tmp, hash_seed, translate_hash_to_seed(hash_seed))
      \* sha(&hash_seed, sizeof(tmp), (uint8_t *)&tmp)
      hashed(tmp) == extract(tmp, sha(Concat(tmp.val0, tmp.val1)))
  IN hashed(Pair(in0, in1))

\* The locals get_ss cleans before it returns (secure_clean, DEFER_CLEANUP).
get_ss_cleanup == {"kdf_tmp", "kdf_hash"}

get_ss(in0, in1, ct_) ==
  LET result(tmp, hash) ==
        [out |-> translate_hash_to_ss(hash),
         live |-> [kdf_tmp |-> tmp, kdf_hash |-> hash]]
      hashed(tmp) == result(tmp, sha(tmp))
  IN hashed(Concat(Concat(in0, in1), Concat(ct_.val0, ct_.val1)))

\* What the environment of one call of reencrypt decides: the statuses of
\* its two gf2x_add calls and the environment of its call of function_h.  A
\* call that is not reached has no status: at most one of them is FAIL.
ReencryptEnvs ==
  {env \in [add0 : Statuses, add1 : Statuses, init_prf : Statuses] :
     /\ GUARD(env.add0) => (env.add1 = SUCCESS /\ env.init_prf = SUCCESS)
     /\ GUARD(env.add1) => env.init_prf = SUCCESS}

\* A reencrypt that hashes the ciphertext itself: ce = l_ct, e2 = H(l_ct).
reencrypt_no_add(ce, e2, e, l_ct, env) ==
  LET result(h) ==
        [ret |-> h.ret, ce |-> l_ct, e2 |-> h.out,
         calls |-> h.calls,
         written |-> {"ce"} \cup h.written
                       \cup (IF GUARD(h.ret) THEN {} ELSE {"e2"}),
         live |-> h.live]
  IN result(function_h(e2, l_ct.val0, l_ct.val1, env))

\* reencrypt: ce = l_ct + e, e2 = H(ce).  written: the locals of
\* crypto_kem_dec and of function_h that were assigned when it returns (ce
\* as soon as the first gf2x_add has stored ce[0]).
reencrypt(ce, e2, e, l_ct, env) ==
  LET \* GUARD(function_h(e2, &ce[0].val, &ce[1].val))
      result(ce0, ce1, h) ==
        [ret |-> h.ret, ce |-> Pair(ce0, ce1), e2 |-> h.out,
         calls |-> Call("gf2x_add", SUCCESS) \o Call("gf2x_add", SUCCESS) \o h.calls,
         written |-> {"ce"} \cup h.written
                       \cup (IF GUARD(h.ret) THEN {} ELSE {"e2"}),
         live |-> h.live]
      \* GUARD(gf2x_add(ce[1].val.raw, l_ct->val[1].raw, e->val[1].raw, R_SIZE))
      second(ce0, a1) ==
        IF GUARD(a1.ret)
        THEN [ret |-> FAIL, ce |-> Pair(ce0, a1.dst), e2 |-> e2,
              calls |-> Call("gf2x_add", SUCCESS) \o Call("gf2x_add", a1.ret),
              written |-> {"ce"}, live |-> ZeroFrame]
        ELSE result(ce0, a1.dst, function_h(e2, ce0, a1.dst, env))
      \* GUARD(gf2x_add(ce[0].val.raw, l_ct->val[0].raw, e->val[0].raw, R_SIZE))
      first(a0) ==
        IF GUARD(a0.ret)
        THEN [ret |-> FAIL, ce |-> Pair(a0.dst, ce.val1), e2 |-> e2,
              calls |-> Call("gf2x_add", a0.ret),
              written |-> {}, live |-> ZeroFrame]
        ELSE second(a0.dst, gf2x_add(ce.val1, l_ct.val1, e.val1, R_SIZE, env.add1))
  IN first(gf2x_add(ce.val0, l_ct.val0, e.val0, R_SIZE, env.add0))

\* The locals each operation cleans when it returns, and encrypt's.
keypair_cleanup == {"seeds", "h_prf_state", "s_prf_state", "p_sk"}
encrypt_cleanup == {"m", "mf_int", "splitted_e"}
enc_cleanup == {"seeds", "mf"}
dec_cleanup == {"syndrome", "e", "e2", "ce"}

(***************************************************************************)
(* The three public operations, one action per step of kem.c.  A GUARD     *)
(* that fails returns at once: the scoped cleanups of the locals in scope  *)
(* run and the operation's status is recorded.                             *)
(***************************************************************************)
NoWrites == [pk |-> 0, ct |-> 0, ss |-> 0]

\* The frame after a step: live is the frame the step computed, touched the
\* locals it assigned, helper the locals of helpers that returned within
\* it, scope the locals the operation cleans if the step returns from it.
Step(op, status, returns, nextpc, live, touched, helper, scope) ==
  /\ L' = Clean(live, helper \cup (IF returns THEN scope ELSE {}))
  /\ hist' = Upd(hist, live, touched)
  /\ pc' = IF returns THEN "idle" ELSE nextpc
  /\ ret' = IF returns THEN [ret EXCEPT ![op] = {status}] ELSE ret

(* ---- crypto_kem_keypair ---- *)

\* Locals set up, get_seeds, GUARD(init_aes_ctr_prf_state) for the h0/h1 and
\* for the sigma context, then memset(l_sk, 0, sizeof(sk_t)).
KpEnter ==
  /\ pc = "idle" /\ ret.kp = {}
  /\ \E ent \in 0..MaxEntropy, i0 \in Statuses, i1 \in Statuses :
       LET done(seeds, h, s) ==
             /\ Step("kp", FAIL, GUARD(h.ret) \/ GUARD(s.ret), "kp_h0",
                     [L EXCEPT !.seeds = seeds, !.h_prf_state = h.prf,
                               !.s_prf_state = IF GUARD(h.ret) THEN ZeroPrf ELSE s.prf,
                               !.p_sk = ZeroPair],
                     {"seeds", "h_prf_state", "s_prf_state", "p_sk"}, {},
                     keypair_cleanup)
             /\ sk' = IF GUARD(h.ret) \/ GUARD(s.ret) THEN sk ELSE ZeroSk
             /\ calls' = Call("init_aes_ctr_prf_state", h.ret)
                            \o (IF GUARD(h.ret) THEN <<>>
                                ELSE Call("init_aes_ctr_prf_state", s.ret))
           inited(seeds) ==
             done(seeds,
                  init_aes_ctr_prf_state(ZeroPrf, MAX_AES_INVOKATION, seeds[0], i0),
                  init_aes_ctr_prf_state(ZeroPrf, MAX_AES_INVOKATION, seeds[2], i1))
       IN inited(get_seeds(ent))
  /\ trace' = <<"enter">>
  /\ wr' = NoWrites
  /\ pre' = [pk |-> pk, ct |-> ct, ss |-> ss_enc]
  /\ stdout' = <<>>
  /\ UNCHANGED <<rbits, splitvars, pk, ct, ss_enc, ss_dec, dct>>

\* generate_sparse_rep for h0, the words printed from the start of its
\* index list (bin[0] is not stored yet), then l_sk->bin[0] = p_sk[0].val.
\* The loop ends at stop; when it does not complete, the process is dead.
KpH0 ==
  /\ pc = "kp_h0"
  /\ \E stop \in LoopStops :
       LET done(r) ==
             /\ r.ok \/ stop = PRINTED
             /\ Step("kp", FAIL, ~r.ok, IF stop < PRINTED THEN "dead" ELSE "kp_sigma",
                     [L EXCEPT !.p_sk.val0 = r.buf, !.h_prf_state = r.prf],
                     {"p_sk", "h_prf_state"}, {}, keypair_cleanup)
             /\ sk' = IF r.ok /\ stop = PRINTED
                      THEN [sk EXCEPT !.wlist0 = r.wlist, !.bin0 = r.buf]
                      ELSE [sk EXCEPT !.wlist0 = r.wlist]
             /\ stdout' = IF r.ok
                          THEN stdout \o printf_wlist("wlist0",
                                                       [sk EXCEPT !.wlist0 = r.wlist],
                                                       0, stop)
                          ELSE stdout
             /\ calls' = calls \o Call("generate_sparse_rep",
                                        IF r.ok THEN SUCCESS ELSE FAIL)
       IN done(generate_sparse_rep(L.p_sk.val0, sk.wlist0, DV, R_BITS, R_SIZE,
                                   L.h_prf_state))
  /\ trace' = Append(trace, "h0")
  /\ UNCHANGED <<rbits, splitvars, pk, ct, ss_enc, ss_dec, dct, wr, pre>>

\* sigma0 and sigma1 sampled from the shared PRF context.
KpSigma ==
  /\ pc = "kp_sigma"
  /\ LET sampler == "sample_uniform_r_bits_with_fixed_prf_context"
         done(s0, s1) ==
           /\ Step("kp", FAIL, ~(s0.ok /\ s1.ok), "kp_h1",
                   [L EXCEPT !.s_prf_state = IF s0.ok THEN s1.prf ELSE s0.prf],
                   {"s_prf_state"}, {}, keypair_cleanup)
           /\ sk' = IF ~s0.ok THEN sk
                    ELSE IF ~s1.ok THEN [sk EXCEPT !.sigma0 = s0.val]
                    ELSE [sk EXCEPT !.sigma0 = s0.val, !.sigma1 = s1.val]
           /\ calls' = IF ~s0.ok THEN calls \o Call(sampler, FAIL)
                       ELSE calls \o Call(sampler, SUCCESS)
                                  \o Call(sampler, IF s1.ok THEN SUCCESS ELSE FAIL)
         second(s0) ==
           done(s0, sample_uniform_r_bits_with_fixed_prf_context(s0.prf,
                                                                 NO_RESTRICTION))
     IN second(sample_uniform_r_bits_with_fixed_prf_context(L.s_prf_state,
                                                            NO_RESTRICTION))
  /\ trace' = Append(trace, "sigma")
  /\ UNCHANGED <<rbits, splitvars, stdout, pk, ct, ss_enc, ss_dec, dct, wr, pre>>

\* generate_sparse_rep for h1, the words printed from the start of its
\* index list (sigma0 and sigma1 follow it), then l_sk->bin[1] = p_sk[1].val.
\* The loop ends at stop; when it does not complete, the process is dead.
KpH1 ==
  /\ pc = "kp_h1"
  /\ \E stop \in LoopStops :
       LET done(r) ==
             /\ r.ok \/ stop = PRINTED
             /\ Step("kp", FAIL, ~r.ok, IF stop < PRINTED THEN "dead" ELSE "kp_calc_pk",
                     [L EXCEPT !.p_sk.val1 = r.buf, !.h_prf_state = r.prf],
                     {"p_sk", "h_prf_state"}, {}, keypair_cleanup)
             /\ sk' = IF r.ok /\ stop = PRINTED
                      THEN [sk EXCEPT !.wlist1 = r.wlist, !.bin1 = r.buf]
                      ELSE [sk EXCEPT !.wlist1 = r.wlist]
             /\ stdout' = IF r.ok
                          THEN stdout \o printf_wlist("wlist1",
                                                       [sk EXCEPT !.wlist1 = r.wlist],
                                                       1, stop)
                          ELSE stdout
             /\ calls' = calls \o Call("generate_sparse_rep",
                                        IF r.ok THEN SUCCESS ELSE FAIL)
       IN done(generate_sparse_rep(L.p_sk.val1, sk.wlist1, DV, R_BITS, R_SIZE,
                                   L.h_prf_state))
  /\ trace' = Append(trace, "h1")
  /\ UNCHANGED <<rbits, splitvars, pk, ct, ss_enc, ss_dec, dct, wr, pre>>

\* What crypto_kem_keypair prints after calc_pk: h0, h1, the two index
\* lists and the sigmas, read from l_sk.
keypair_prints(l_sk) ==
  print("h0", l_sk.bin0) \o print("h1", l_sk.bin1)
    \o print("h0c", l_sk.wlist0) \o print("h1c", l_sk.wlist1)
    \o print("sigma0", l_sk.sigma0) \o print("sigma1", l_sk.sigma1)

\* GUARD(calc_pk), the prints of the secret key, then return SUCCESS.
KpCalcPk ==
  /\ pc = "kp_calc_pk"
  /\ \E env \in CalcPkEnvs :
       LET done(r) ==
             /\ Step("kp", r.ret, TRUE, "idle",
                     [L EXCEPT !.g = r.live.g, !.p_pk = r.live.p_pk],
                     {"g", "p_pk"} \cup keypair_cleanup, calc_pk_cleanup,
                     keypair_cleanup)
             /\ pk' = r.pk
             /\ wr' = [wr EXCEPT !.pk = @ + r.writes]
             /\ stdout' = stdout \o r.prints
                            \o (IF GUARD(r.ret) THEN <<>> ELSE keypair_prints(sk))
             /\ calls' = calls \o r.calls
       IN done(calc_pk(pk, L.seeds[1], L.p_sk, env))
  /\ trace' = Append(trace, "calc_pk")
  /\ UNCHANGED <<rbits, splitvars, sk, ct, ss_enc, ss_dec, dct, pre>>

(* ---- crypto_kem_enc ---- *)

\* Locals set up and get_seeds; mf is declared without an initialiser.
EncEnter ==
  /\ pc = "idle" /\ ret.kp = {SUCCESS} /\ ret.enc = {}
  /\ \E ent \in 0..MaxEntropy :
       LET live == [L EXCEPT !.seeds = get_seeds(ent), !.mf = IndeterminateSplit]
       IN Step("enc", SUCCESS, FALSE, "enc_sample_m", live, {"seeds"}, {}, {})
  /\ trace' = <<"enter">>
  /\ wr' = NoWrites
  /\ pre' = [pk |-> pk, ct |-> ct, ss |-> ss_enc]
  /\ calls' = <<>>
  /\ stdout' = <<>>
  /\ UNCHANGED <<rbits, splitvars, pk, sk, ct, ss_enc, ss_dec, dct>>

\* encrypt: m sampled from seed[1] and printed.
EncSampleM ==
  /\ pc = "enc_sample_m"
  /\ LET done(r) ==
           /\ Step("enc", FAIL, ~r.ok, "enc_mul", [L EXCEPT !.m = r.val], {"m"}, {},
                   encrypt_cleanup \cup enc_cleanup)
           /\ stdout' = IF r.ok THEN stdout \o print("m", r.val) ELSE stdout
           /\ calls' = calls \o Call("sample_uniform_r_bits",
                                      IF r.ok THEN SUCCESS ELSE FAIL)
     IN done(sample_uniform_r_bits(L.seeds[1], NO_RESTRICTION))
  /\ trace' = Append(trace, "sample_m")
  /\ UNCHANGED <<rbits, splitvars, pk, sk, ct, ss_enc, ss_dec, dct, wr, pre>>

\* encrypt: pk and ct padded, mf_int = {0}, GUARD(gf2x_mod_mul) for m*f0 and
\* for m*f1.
EncMul ==
  /\ pc = "enc_mul"
  /\ \E s0 \in Statuses, s1 \in Statuses :
       LET done(m0, m1) ==
             /\ Step("enc", FAIL, GUARD(m0.ret) \/ GUARD(m1.ret), "enc_h",
                     [L EXCEPT !.p_pk = pk, !.p_ct = ct,
                               !.mf_int = IF GUARD(m0.ret)
                                          THEN Pair(m0.dst, Zeros(R_SIZE))
                                          ELSE Pair(m0.dst, m1.dst)],
                     {"p_pk", "p_ct", "mf_int"}, {},
                     encrypt_cleanup \cup enc_cleanup)
             /\ calls' = calls \o Call("gf2x_mod_mul", m0.ret)
                                \o (IF GUARD(m0.ret) THEN <<>>
                                    ELSE Call("gf2x_mod_mul", m1.ret))
       IN done(gf2x_mod_mul(Zeros(R_SIZE), L.m, pk.val0, s0),
               gf2x_mod_mul(Zeros(R_SIZE), L.m, pk.val1, s1))
  /\ trace' = Append(trace, "mul")
  /\ UNCHANGED <<rbits, splitvars, stdout, pk, sk, ct, ss_enc, ss_dec, dct, wr, pre>>

\* encrypt: splitted_e is declared without an initialiser;
\* GUARD(function_h(&splitted_e, mf0, mf1)).
EncH ==
  /\ pc = "enc_h"
  /\ \E env \in FunctionHEnvs :
       LET done(h) ==
             /\ Step("enc", FAIL, GUARD(h.ret), "enc_add",
                     [Upd(L, h.live, function_h_cleanup) EXCEPT !.splitted_e = h.out],
                     h.written \cup (IF GUARD(h.ret) THEN {} ELSE {"splitted_e"}),
                     function_h_cleanup, encrypt_cleanup \cup enc_cleanup)
             /\ calls' = calls \o h.calls
       IN done(function_h(IndeterminateSplit, L.mf_int.val0, L.mf_int.val1, env))
  /\ trace' = Append(trace, "function_h")
  /\ UNCHANGED <<rbits, splitvars, stdout, pk, sk, ct, ss_enc, ss_dec, dct, wr, pre>>

\* encrypt: GUARD(gf2x_add) for p_ct[0] = mf0 + e0 and for p_ct[1] = mf1 + e1.
EncAdd ==
  /\ pc = "enc_add"
  /\ \E s0 \in Statuses, s1 \in Statuses :
       LET done(a0, a1) ==
             /\ Step("enc", FAIL, GUARD(a0.ret) \/ GUARD(a1.ret), "enc_out",
                     [L EXCEPT !.p_ct = IF GUARD(a0.ret)
                                        THEN Pair(a0.dst, L.p_ct.val1)
                                        ELSE Pair(a0.dst, a1.dst)],
                     {"p_ct"}, {}, encrypt_cleanup \cup enc_cleanup)
             /\ calls' = calls \o Call("gf2x_add", a0.ret)
                                \o (IF GUARD(a0.ret) THEN <<>>
                                    ELSE Call("gf2x_add", a1.ret))
       IN done(gf2x_add(L.p_ct.val0, L.mf_int.val0, L.splitted_e.val0, R_SIZE, s0),
               gf2x_add(L.p_ct.val1, L.mf_int.val1, L.splitted_e.val1, R_SIZE, s1))
  /\ trace' = Append(trace, "add")
  /\ UNCHANGED <<rbits, splitvars, stdout, pk, sk, ct, ss_enc, ss_dec, dct, wr, pre>>

\* encrypt: ct and mf copied out, e0, e1, c0, c1 printed, encrypt returns.
EncOut ==
  /\ pc = "enc_out"
  /\ LET live == [L EXCEPT !.mf = L.mf_int]
     IN Step("enc", FAIL, FALSE, "enc_get_ss", live, {"mf"} \cup encrypt_cleanup,
             encrypt_cleanup, {})
  /\ ct' = L.p_ct
  /\ wr' = [wr EXCEPT !.ct = @ + 1]
  /\ stdout' = stdout \o print("e0", L.splitted_e.val0)
                      \o print("e1", L.splitted_e.val1)
                      \o print("c0", L.p_ct.val0) \o print("c1", L.p_ct.val1)
  /\ trace' = Append(trace, "out")
  /\ UNCHANGED <<rbits, splitvars, pk, sk, ss_enc, ss_dec, dct, pre, calls>>

\* get_ss(l_ss, mf0, mf1, l_ct), then ss printed.
EncGetSs ==
  /\ pc = "enc_get_ss"
  /\ LET done(k) ==
           /\ Step("enc", FAIL, FALSE, "enc_return", Upd(L, k.live, get_ss_cleanup),
                   get_ss_cleanup, get_ss_cleanup, {})
           /\ ss_enc' = k.out
           /\ stdout' = stdout \o print("ss", k.out)
     IN done(get_ss(L.mf.val0, L.mf.val1, ct))
  /\ wr' = [wr EXCEPT !.ss = @ + 1]
  /\ trace' = Append(trace, "get_ss")
  /\ UNCHANGED <<rbits, splitvars, pk, sk, ct, ss_dec, dct, pre, calls>>

\* return SUCCESS.
EncReturn ==
  /\ pc = "enc_return"
  /\ Step("enc", SUCCESS, TRUE, "idle", L, enc_cleanup, {}, enc_cleanup)
  /\ trace' = Append(trace, "return")
  /\ UNCHANGED <<rbits, splitvars, stdout, pk, sk, ct, ss_enc, ss_dec, dct, wr, pre,
                 calls>>

(* ---- crypto_kem_dec ---- *)

\* compute_syndrome: s = c0*h0 + c1*h1.
compute_syndrome(l_ct, l_sk) ==
  RingAdd(RingMul(l_ct.val0, l_sk.bin0), RingMul(l_ct.val1, l_sk.bin1), R_SIZE)

\* The ring elements, and the error pairs a decoder may return.
RElems == {FromSupport(sup, R_SIZE) : sup \in SUBSET (0..(R_BITS - 1))}
RPairs == {Pair(a, b) : a \in RElems, b \in RElems}

\* buf with bit j flipped, buf being a pair of ring elements.
FlipBit(c, j) == [c EXCEPT !.val0[j \div 8] = XOR8(@, Pow2(j % 8))]
\* The ciphertext buffers the model passes to crypto_kem_dec: the caller's
\* ct buffer, the same with bit 0 flipped, the same with the top bit of the
\* last byte of c0 flipped, and a buffer no encapsulation has written.
CtInputs == {ct, FlipBit(ct, 0), FlipBit(ct, 8 * R_SIZE - 1), JunkPair}

\* A decapsulation that skips the re-encryption when the decoder failed.
after_decode_short(dec_ret) == IF dec_ret = 0 THEN "dec_ss_fail" ELSE "dec_reencrypt"

\* The step that follows the decoder's return.
after_decode(dec_ret) == "dec_reencrypt"

\* A decapsulation that returns the decoder's failure to its caller.
decode_returns_failure(status) == status # SUCCESS

\* The decoder's status is recorded in dec_ret and is not under a GUARD: it
\* never makes crypto_kem_dec return.
decode_returns(status) == FALSE

\* uint32_t dec_ret = decode(...) != SUCCESS ? 0 : 1
dec_ret_of(status) == IF status # SUCCESS THEN 0 ELSE 1

\* success_cond = dec_ret & secure_cmp32(T1, wt(e0) + wt(e1)) & secure_cmp(e, e2)
success_cond_of(dec_ret, e, e2) ==
  BitAndW(BitAndW(dec_ret,
                  secure_cmp32(T1, r_bits_vector_weight(e.val0)
                                     + r_bits_vector_weight(e.val1)), 32),
          secure_cmp(e, e2), 32)

\* A mask that is the success condition itself (0x01 or 0x00).
mask_of_bit(success_cond) == success_cond

\* uint8_t mask = ~secure_l32_mask(0, success_cond)
\* (the conversion to uint8_t keeps the low byte of the complement)
mask_of(success_cond) == NOT8(U8(secure_l32_mask(0, success_cond)[2]))

\* l_ss->raw[i] = (mask & ss_succ.raw[i]) | (~mask & ss_fail.raw[i])
select_ss(mask, ss_succ, ss_fail) ==
  [i \in 0..(SS_SIZE - 1) |->
     OR8(AND8(mask, ss_succ[i]), AND8(NOT8(mask), ss_fail[i]))]

\* Locals set up: syndrome = {0}; e is declared without an initialiser.
\* The caller decapsulates once a key pair and an encapsulation exist, with
\* one of CtInputs as the ciphertext; stdout restarts with each operation.
DecEnter ==
  /\ pc = "idle" /\ ret.kp = {SUCCESS} /\ ret.enc = {SUCCESS} /\ ret.dec = {}
  /\ \E c \in CtInputs : dct' = c
  /\ LET live == [L EXCEPT !.syndrome = Zeros(R_SIZE), !.e = IndeterminateSplit]
     IN Step("dec", SUCCESS, FALSE, "dec_syndrome", live, {"syndrome"}, {}, {})
  /\ trace' = <<"enter">>
  /\ wr' = NoWrites
  /\ pre' = [pk |-> pk, ct |-> ct, ss |-> ss_dec]
  /\ calls' = <<>>
  /\ stdout' = <<>>
  /\ UNCHANGED <<rbits, splitvars, pk, sk, ct, ss_enc, ss_dec>>

\* GUARD(compute_syndrome(&syndrome, l_ct, l_sk)); the routine's status is
\* the environment's.
DecSyndrome ==
  /\ pc = "dec_syndrome"
  /\ \E status \in Statuses :
       /\ LET live == [L EXCEPT !.syndrome = IF status = SUCCESS
                                             THEN compute_syndrome(dct, sk) ELSE @]
          IN Step("dec", FAIL, GUARD(status), "dec_decode", live, {"syndrome"}, {},
                  dec_cleanup)
       /\ calls' = calls \o Call("compute_syndrome", status)
  /\ trace' = Append(trace, "compute_syndrome")
  /\ UNCHANGED <<rbits, splitvars, stdout, pk, sk, ct, ss_enc, ss_dec, dct, wr, pre>>

\* dec_ret = decode(&e, &syndrome, l_ct, l_sk) != SUCCESS ? 0 : 1; the
\* decoder's status and the error pair it leaves in e are the environment's.
DecDecode ==
  /\ pc = "dec_decode"
  /\ \E status \in Statuses, e1 \in RPairs :
       /\ LET live == [L EXCEPT !.e = e1, !.dec_ret = dec_ret_of(status)]
          IN Step("dec", FAIL, decode_returns(status),
                  after_decode(dec_ret_of(status)), live,
                  {"e", "dec_ret"}, {}, dec_cleanup)
       /\ calls' = calls \o Call("decode", status)
  /\ trace' = Append(trace, "decode")
  /\ UNCHANGED <<rbits, splitvars, stdout, pk, sk, ct, ss_enc, ss_dec, dct, wr, pre>>

\* e2 and ce are declared without an initialiser;
\* GUARD(reencrypt(ce, &e2, &e, l_ct)).
DecReencrypt ==
  /\ pc = "dec_reencrypt"
  /\ \E env \in ReencryptEnvs :
       LET done(r) ==
             /\ Step("dec", FAIL, GUARD(r.ret), "dec_cond",
                     [Upd(L, r.live, function_h_cleanup) EXCEPT
                        !.ce = r.ce, !.e2 = r.e2],
                     r.written, function_h_cleanup, dec_cleanup)
             /\ calls' = calls \o r.calls
       IN done(reencrypt(IndeterminateSplit, IndeterminateSplit, L.e, dct, env))
  /\ trace' = Append(trace, "reencrypt")
  /\ UNCHANGED <<rbits, splitvars, stdout, pk, sk, ct, ss_enc, ss_dec, dct, wr, pre>>

\* The three-way success condition.
DecCond ==
  /\ pc = "dec_cond"
  /\ LET live == [L EXCEPT !.success_cond = success_cond_of(L.dec_ret, L.e, L.e2)]
     IN Step("dec", FAIL, FALSE, "dec_ss_succ", live, {"success_cond"}, {}, {})
  /\ trace' = Append(trace, "success_cond")
  /\ UNCHANGED <<rbits, splitvars, stdout, pk, sk, ct, ss_enc, ss_dec, dct, wr, pre,
                 calls>>

\* ss_succ = {0}, ss_fail = {0}; get_ss(&ss_succ, &ce[0].val, &ce[1].val, l_ct).
DecSsSucc ==
  /\ pc = "dec_ss_succ"
  /\ LET done(k) ==
           Step("dec", FAIL, FALSE, "dec_ss_fail",
                [Upd(L, k.live, get_ss_cleanup) EXCEPT
                   !.ss_succ = k.out, !.ss_fail = Zeros(SS_SIZE)],
                {"ss_succ", "ss_fail"} \cup get_ss_cleanup, get_ss_cleanup, {})
     IN done(get_ss(L.ce.val0, L.ce.val1, dct))
  /\ trace' = Append(trace, "get_ss_succ")
  /\ UNCHANGED <<rbits, splitvars, stdout, pk, sk, ct, ss_enc, ss_dec, dct, wr, pre,
                 calls>>

\* get_ss(&ss_fail, &l_sk->sigma0, &l_sk->sigma1, l_ct).
DecSsFail ==
  /\ pc = "dec_ss_fail"
  /\ LET done(k) ==
           Step("dec", FAIL, FALSE, "dec_select",
                [Upd(L, k.live, get_ss_cleanup) EXCEPT !.ss_fail = k.out],
                {"ss_fail"} \cup get_ss_cleanup, get_ss_cleanup, {})
     IN done(get_ss(sk.sigma0, sk.sigma1, dct))
  /\ trace' = Append(trace, "get_ss_fail")
  /\ UNCHANGED <<rbits, splitvars, stdout, pk, sk, ct, ss_enc, ss_dec, dct, wr, pre,
                 calls>>

\* The mask and the byte-wise selection into l_ss.
DecSelect ==
  /\ pc = "dec_select"
  /\ LET done(mask) ==
           /\ Step("dec", FAIL, FALSE, "dec_return", [L EXCEPT !.mask = mask],
                   {"mask"}, {}, {})
           /\ ss_dec' = select_ss(mask, L.ss_succ, L.ss_fail)
     IN done(mask_of(L.success_cond))
  /\ wr' = [wr EXCEPT !.ss = @ + 1]
  /\ trace' = Append(trace, "select")
  /\ UNCHANGED <<rbits, splitvars, stdout, pk, sk, ct, ss_enc, dct, pre, calls>>

\* return SUCCESS.
DecReturn ==
  /\ pc = "dec_return"
  /\ Step("dec", SUCCESS, TRUE, "idle", L, dec_cleanup, {}, dec_cleanup)
  /\ trace' = Append(trace, "return")
  /\ UNCHANGED <<rbits, splitvars, stdout, pk, sk, ct, ss_enc, ss_dec, dct, wr, pre,
                 calls>>

(***************************************************************************)
(* The KEM specification: one key pair, one encapsulation, one             *)
(* decapsulation, each on caller buffers that hold junk before the call.   *)
(***************************************************************************)
Init ==
  /\ rbits = KemRBits
  /\ sp_pc = "off" /\ sp_e = <<>> /\ sp_out = <<>>
  /\ pc = "idle"
  /\ pk = JunkPair /\ sk = JunkSk /\ ct = JunkPair /\ dct = JunkPair
  /\ ss_enc = Fill(SS_SIZE, JUNK) /\ ss_dec = Fill(SS_SIZE, JUNK)
  /\ L = ZeroFrame /\ hist = ZeroFrame
  /\ ret = [kp |-> {}, enc |-> {}, dec |-> {}]
  /\ trace = <<>>
  /\ wr = NoWrites
  /\ pre = [pk |-> JunkPair, ct |-> JunkPair, ss |-> Fill(SS_SIZE, JUNK)]
  /\ calls = <<>>
  /\ stdout = <<>>

Next ==
  \/ KpEnter \/ KpH0 \/ KpSigma \/ KpH1 \/ KpCalcPk
  \/ EncEnter \/ EncSampleM \/ EncMul \/ EncH \/ EncAdd \/ EncOut \/ EncGetSs
  \/ EncReturn
  \/ DecEnter \/ DecSyndrome \/ DecDecode \/ DecReencrypt \/ DecCond
  \/ DecSsSucc \/ DecSsFail \/ DecSelect \/ DecReturn

Spec == Init /\ [][Next]_vars

(***************************************************************************)
(* The split_e harness: every r in 1..MaxR and every N_SIZE-byte buffer    *)
(* holding a 2r-bit value, split into an output buffer filled with a byte  *)
(* of OutBytes per half.                                                   *)
(***************************************************************************)
OutBytes == {0, JUNK}
NoSplit == [val0 |-> <<>>, val1 |-> <<>>, reads |-> {}, writes0 |-> {}, writes1 |-> {}]

\* No KEM operation runs in the harness.
KemIdle ==
  /\ pc = "off"
  /\ pk = <<>> /\ sk = <<>> /\ ct = <<>> /\ dct = <<>>
  /\ ss_enc = <<>> /\ ss_dec = <<>>
  /\ L = <<>> /\ hist = <<>>
  /\ ret = <<>> /\ trace = <<>> /\ wr = <<>> /\ pre = <<>> /\ calls = <<>>
  /\ stdout = <<>>

InitSplit ==
  /\ rbits \in 1..MaxR
  /\ sp_pc = "in"
  /\ sp_e \in {FromSupport(s, N_SIZE) : s \in SUBSET (0..(N_BITS - 1))}
  /\ sp_out = NoSplit
  /\ KemIdle

SplitCall ==
  /\ sp_pc = "in"
  /\ \E a \in OutBytes, b \in OutBytes :
       sp_out' = split_e(Pair(Fill(R_SIZE, a), Fill(R_SIZE, b)), sp_e)
  /\ sp_pc' = "out"
  /\ UNCHANGED <<rbits, sp_e, kemvars>>

NextSplit == SplitCall

SpecSplit == InitSplit /\ [][NextSplit]_vars

\* C6: split_e yields e0 = bits 0..r-1 of e and e1 = bits r..2r-1 of e, both
\* with every bit at a position >= r zero, reads only e[0..N_SIZE) and writes
\* only val[0]/val[1][0..R_SIZE), for r mod 8 # 0 (with and without the
\* N_SIZE < 2*R_SIZE corner case) and for r mod 8 = 0.
C6_SplitCorrect ==
  sp_pc = "out" =>
    /\ DOMAIN sp_out.val0 = 0..(R_SIZE - 1)
    /\ DOMAIN sp_out.val1 = 0..(R_SIZE - 1)
    /\ \A j \in 0..(R_BITS - 1) :
         /\ BufBit(sp_out.val0, j) = BufBit(sp_e, j)
         /\ BufBit(sp_out.val1, j) = BufBit(sp_e, R_BITS + j)
    /\ \A j \in R_BITS..(8 * R_SIZE - 1) :
         /\ BufBit(sp_out.val0, j) = 0
         /\ BufBit(sp_out.val1, j) = 0
    /\ sp_out.reads \subseteq 0..(N_SIZE - 1)
    /\ sp_out.writes0 \subseteq 0..(R_SIZE - 1)
    /\ sp_out.writes1 \subseteq 0..(R_SIZE - 1)

\* The same for the ring degrees that are no multiple of 8.
C6_SplitCorrectUnaligned == rbits % 8 # 0 => C6_SplitCorrect

\* split_e returned for an r that is a multiple of 8: the loop of kem.c:36-37
\* shifted e[i] left by 8 and e[i - 1] right by 0, so val[1] is a copy of
\* the first R_SIZE bytes of e, here with a first bit that differs from bit
\* r of e.
C6_Aligned ==
  /\ sp_pc = "out"
  /\ rbits % 8 = 0
  /\ \A i \in 0..(R_SIZE - 1) : sp_out.val1[i] = sp_e[i]
  /\ BufBit(sp_out.val1, 0) # BufBit(sp_e, R_BITS)

(***************************************************************************)
(* Properties of the KEM operations.                                       *)
(***************************************************************************)
\* Every bit of a at a position >= r is zero.
Masked(a) == \A j \in Support(a) : j < R_BITS
\* weight(p.val0) + weight(p.val1).
PairWeight(p) == r_bits_vector_weight(p.val0) + r_bits_vector_weight(p.val1)
\* KDF(a0, a1, c): the shared secret get_ss derives.
KDF(a0, a1, c) == get_ss(a0, a1, c).out
\* The operation that ran last.
LastOp == IF ret.dec # {} THEN "dec" ELSE IF ret.enc # {} THEN "enc" ELSE "kp"
\* encrypt is past its call of function_h, which succeeded.
EncHDone ==
  pc \in {"enc_add", "enc_out", "enc_get_ss", "enc_return"} \/ ret.enc = {SUCCESS}
\* crypto_kem_dec is past its call of reencrypt, which succeeded.
DecReencDone ==
  \/ pc \in {"dec_cond", "dec_ss_succ", "dec_ss_fail", "dec_select", "dec_return"}
  \/ ret.dec = {SUCCESS}
\* crypto_kem_dec has been entered.
InDec == ret.enc # {} /\ (ret.dec # {} \/ pc # "idle")
\* The three conditions of the decapsulation: the decoder returned success,
\* weight(e0') + weight(e1') = t, and e' = e''.
DecPredicate ==
  /\ hist.dec_ret = 1
  /\ PairWeight(hist.e) = T1
  /\ hist.e = hist.e2
\* Every call the running (or last) operation made under a GUARD returned
\* SUCCESS: of the fallible calls only the decoder's is not under a GUARD.
GuardedOk == \A i \in 1..Len(calls) : calls[i].fn # "decode" => calls[i].ret = SUCCESS
\* crypto_kem_dec is given the ciphertext the encapsulation wrote, its
\* guarded calls succeed and the decoder returns success with the error pair
\* that encapsulation used.
DecodedRight ==
  /\ ret.kp = {SUCCESS} /\ ret.enc = {SUCCESS} /\ ret.dec # {}
  /\ dct = ct
  /\ GuardedOk
  /\ hist.dec_ret = 1
  /\ hist.e = hist.splitted_e

\* C1, as stated: after a successful keypair and a successful encapsulation,
\* crypto_kem_dec on (ct, sk) writes a shared secret equal to ss_enc.
C1_RoundTrip ==
  (ret.kp = {SUCCESS} /\ ret.enc = {SUCCESS} /\ ret.dec # {} /\ dct = ct)
    => ss_dec = ss_enc

\* C1, with the collaborators' part made explicit: after a successful
\* keypair and a successful encapsulation, crypto_kem_dec on (ct, sk) returns
\* 0 and writes a shared secret equal to ss_enc, provided that none of its
\* guarded calls (compute_syndrome, gf2x_add, init_aes_ctr_prf_state,
\* generate_sparse_rep) fails and the decoder returns success with e' equal
\* to the error pair (e0, e1) of the encapsulation.
C1_RoundTripDecoded ==
  DecodedRight => (ret.dec = {SUCCESS} /\ ss_dec = ss_enc)

\* C1 witness: a decapsulation of the encapsulation's ciphertext has returned
\* after the decoder recovered the encapsulation's error pair.
C1_Witness == DecodedRight /\ pc = "idle" /\ PairWeight(hist.e) = T1

\* The shared secret the implicit-rejection rule prescribes.
ExpectedSs ==
  IF DecPredicate
  THEN KDF(RingAdd(dct.val0, hist.e.val0, R_SIZE),
           RingAdd(dct.val1, hist.e.val1, R_SIZE), dct)
  ELSE KDF(sk.sigma0, sk.sigma1, dct)

\* C2, as stated: whenever crypto_kem_dec returns, ss is KDF(c0 xor e0',
\* c1 xor e1', c) if the three conditions hold and KDF(sigma0, sigma1, c) if
\* one of them fails.
C2_ExactSelectionOnReturn == ret.dec # {} => ss_dec = ExpectedSs

\* C2, for the returns that write ss: whenever crypto_kem_dec returns status
\* 0, every byte of ss equals KDF(c0 xor e0', c1 xor e1', c) if the three
\* conditions hold and KDF(sigma0, sigma1, c) if any one of them fails; it is
\* never a mix, and a rejected ciphertext's ss depends only on sigma0, sigma1
\* and c.
C2_ExactSelection == ret.dec = {SUCCESS} => ss_dec = ExpectedSs

\* C2 witness: a decapsulation returned 0 with the three conditions holding
\* and two different candidate secrets.
C2_Witness ==
  /\ ret.dec = {SUCCESS}
  /\ DecPredicate
  /\ hist.ss_succ # hist.ss_fail
  /\ ss_dec = hist.ss_succ

\* C3, as stated: crypto_kem_dec returns status 0 unconditionally.
C3_AlwaysSuccess == ret.dec # {} => ret.dec = {SUCCESS}

\* C3, with the propagated failures: crypto_kem_dec returns status 0 for
\* every ciphertext and whatever the decoder reports, provided the syndrome
\* routine and the re-encryption step succeed; when one of these two fails
\* (the re-encryption when gf2x_add, H's PRF initialisation or H's sparse
\* sampler fails) the failure is returned.
C3_SuccessUnlessGuarded ==
  ret.dec # {} => ret.dec = {IF GuardedOk THEN SUCCESS ELSE FAIL}

\* C3 witness: a decapsulation of a tampered ciphertext on which the decoder
\* failed has returned status 0.
C3_Witness ==
  /\ ret.dec = {SUCCESS}
  /\ hist.dec_ret = 0
  /\ dct # ct

\* The secret-bearing locals of kem.c.
SecretLocals ==
  DOMAIN ZeroFrame \ {"p_pk", "p_ct", "dec_ret", "success_cond", "mask"}

\* C4: when an operation or a helper has returned, every secret-bearing
\* buffer it created is all zeros: the helpers' locals whenever control is
\* back in an operation, and every secret local once the operation returned.
C4_Zeroized ==
  /\ \A f \in calc_pk_cleanup \cup function_h_cleanup \cup get_ss_cleanup :
       L[f] = ZeroFrame[f]
  /\ pc = "idle" => \A f \in SecretLocals : L[f] = ZeroFrame[f]

\* C5: every ring element produced has all bits at positions >= r zero: h0,
\* h1, sigma0, sigma1, f0, f1 (keypair), m, mf0, mf1, e0, e1, c0, c1
\* (encaps), mf0', mf1', e0'', e1'' (decaps), for every ciphertext buffer
\* passed to decaps.
C5_BitMask ==
  /\ ret.kp = {SUCCESS} =>
       /\ Masked(sk.bin0) /\ Masked(sk.bin1)
       /\ Masked(sk.sigma0) /\ Masked(sk.sigma1)
       /\ Masked(pk.val0) /\ Masked(pk.val1)
  /\ EncHDone =>
       /\ Masked(hist.m)
       /\ Masked(hist.mf_int.val0) /\ Masked(hist.mf_int.val1)
       /\ Masked(hist.splitted_e.val0) /\ Masked(hist.splitted_e.val1)
  /\ ret.enc = {SUCCESS} => Masked(ct.val0) /\ Masked(ct.val1)
  /\ DecReencDone =>
       /\ Masked(hist.ce.val0) /\ Masked(hist.ce.val1)
       /\ Masked(hist.e2.val0) /\ Masked(hist.e2.val1)

\* C7: after a successful keypair sk.bin[0] and sk.bin[1] have weight dv,
\* wlist[0] and wlist[1] list exactly their supports and g has odd weight;
\* every pair returned by a successful function_h, in encaps and in the
\* re-encryption of decaps, has weight(e0) + weight(e1) = t.
C7_Weights ==
  /\ ret.kp = {SUCCESS} =>
       /\ r_bits_vector_weight(sk.bin0) = DV
       /\ r_bits_vector_weight(sk.bin1) = DV
       /\ DOMAIN sk.wlist0 = 0..(DV - 1)
       /\ DOMAIN sk.wlist1 = 0..(DV - 1)
       /\ {sk.wlist0[i] : i \in DOMAIN sk.wlist0} = Support(sk.bin0)
       /\ {sk.wlist1[i] : i \in DOMAIN sk.wlist1} = Support(sk.bin1)
       /\ r_bits_vector_weight(hist.g) % 2 = 1
  /\ EncHDone => PairWeight(hist.splitted_e) = T1
  /\ DecReencDone => PairWeight(hist.e2) = T1

\* C7 witness: the three operations succeeded, the error of the
\* encapsulation having bits in both halves.
C7_Witness ==
  /\ ret.kp = {SUCCESS} /\ ret.enc = {SUCCESS} /\ ret.dec = {SUCCESS}
  /\ Support(hist.splitted_e.val0) # {}
  /\ Support(hist.splitted_e.val1) # {}
  /\ Support(hist.e2.val1) # {}

\* e0*h0 + e1*h1 in R.
ErrorSyndrome(e) ==
  RingAdd(RingMul(e.val0, sk.bin0), RingMul(e.val1, sk.bin1), R_SIZE)

\* C8: the ciphertext (c0, c1) = (m*f0 + e0, m*f1 + e1) that encrypt builds
\* on a key with f0 = g*h1, f1 = g*h0 satisfies c0*h0 + c1*h1 =
\* e0*h0 + e1*h1 in R.
C8_SyndromeIdentity ==
  /\ pc = "enc_out" => compute_syndrome(L.p_ct, sk) = ErrorSyndrome(L.splitted_e)
  /\ (ret.enc = {SUCCESS} /\ ret.dec = {}) =>
       compute_syndrome(ct, sk) = ErrorSyndrome(hist.splitted_e)

\* C8 witness: an encapsulation with m # 0 wrote a ciphertext whose syndrome
\* is not zero.
C8_Witness ==
  /\ ret.enc = {SUCCESS} /\ ret.dec = {}
  /\ Support(hist.m) # {}
  /\ Support(hist.mf_int.val0) # {}
  /\ Support(compute_syndrome(ct, sk)) # {}

\* The steps of crypto_kem_dec, in order.
DecSteps ==
  <<"enter", "compute_syndrome", "decode", "reencrypt", "success_cond",
    "get_ss_succ", "get_ss_fail", "select", "return">>

\* C9: in every execution of crypto_kem_dec the steps performed are the same
\* whatever the decoder returned: once the decoder has returned, with
\* success or with failure, the re-encryption runs; a decapsulation that
\* returned performed all its steps unless a guarded call failed; and
\* ss_succ = KDF(mf0', mf1', c) and ss_fail = KDF(sigma0, sigma1, c) are both
\* computed before ss is written.
C9_NoShortCircuit ==
  InDec =>
    /\ Len(trace) <= Len(DecSteps)
    /\ \A i \in 1..Len(trace) : trace[i] = DecSteps[i]
    \* the decoder's return, with success or failure, leads to the
    \* re-encryption and never ends the operation
    /\ Len(trace) = 3 => pc = "dec_reencrypt"
    \* the steps of a decapsulation that returned are fixed by its guarded
    \* calls alone: all of DecSteps when none failed, and otherwise the
    \* steps up to the failed compute_syndrome or reencrypt
    /\ pc = "idle" =>
         Len(trace) = (IF GuardedOk THEN Len(DecSteps)
                       ELSE IF Len(calls) = 1 THEN 2 ELSE 4)
    /\ wr.ss > 0 =>
         /\ Len(trace) >= 8
         /\ hist.ss_succ = KDF(hist.ce.val0, hist.ce.val1, dct)
         /\ hist.ss_fail = KDF(sk.sigma0, sk.sigma1, dct)

\* C9 witness: a decapsulation on which the decoder failed ran all its steps.
C9_Witness ==
  /\ InDec /\ trace = DecSteps
  /\ hist.dec_ret = 0
  /\ wr.ss = 1

\* C10: pk (keypair), ct and ss (encaps) and ss (decaps) are written at most
\* once, only after every fallible step of the operation has succeeded, and
\* when an operation returns a non-zero status they hold the bytes they held
\* before the call.
C10_WriteOnce ==
  /\ wr.pk <= 1 /\ wr.ct <= 1 /\ wr.ss <= 1
  /\ wr.pk > 0 => (pc = "idle" /\ ret.kp = {SUCCESS})
  /\ wr.ct > 0 =>
       \/ pc \in {"enc_get_ss", "enc_return"}
       \/ (pc = "idle" /\ ret.enc = {SUCCESS})
  /\ wr.ss > 0 =>
       \/ pc \in {"enc_return", "dec_return"}
       \/ (pc = "idle" /\ ret[LastOp] = {SUCCESS})
  /\ (pc = "idle" /\ ret[LastOp] # {} /\ ret[LastOp] # {SUCCESS}) =>
       /\ pk = pre.pk /\ ct = pre.ct
       /\ (IF LastOp = "dec" THEN ss_dec ELSE ss_enc) = pre.ss
       /\ wr = NoWrites

\* C10 witness: an encapsulation returned a non-zero status.
C10_Witness ==
  /\ pc = "idle" /\ LastOp = "enc"
  /\ ret.enc = {FAIL}
  /\ Len(trace) > 2

\* The names under which the source prints values derived from secret data:
\* the supports of h0 and h1, h0, h1, their index lists, the sigmas, g, m,
\* the error pair and the shared secret.  (f0, f1, c0, c1 are public.)
SecretPrints ==
  {"wlist0", "wlist1", "h0", "h1", "h0c", "h1c", "sigma0", "sigma1",
   "g", "m", "e0", "e1", "ss"}

\* C11: in every execution of crypto_kem_keypair, crypto_kem_enc and
\* crypto_kem_dec nothing derived from secret data is emitted on a channel
\* other than the output buffers: no entry printed on stdout carries the
\* support indices of h0 or h1, h0, h1, sigma0, sigma1, g, m, e0, e1 or the
\* shared secret.
C11_NoSecretOutput ==
  \A i \in 1..Len(stdout) : stdout[i].name \notin SecretPrints

====
